---- MODULE Spec2Model ----
(***************************************************************************)
(* A model of a single Kademlia k-bucket                                   *)
(* (protocols/kad/src/kbucket/bucket.rs).                                  *)
(*                                                                         *)
(* A Node is modelled by its key alone: the associated value is never      *)
(* read by the bucket logic.  Option<T> is modelled as a set with at most  *)
(* one element.  Positions are 0-based as in the source; TLA+ sequences    *)
(* are 1-based, so the node at position p is nodes[p + 1].                 *)
(***************************************************************************)
EXTENDS Integers, Sequences, FiniteSets, TLC

\* The (fixed) k parameter, scaled down from 20.
MAX_NODES_PER_BUCKET == 2

\* Number of distinct keys the caller draws from.
NumKeys == 4

\* Last reading of the clock the model explores.
MaxTime == 1

\* The pending_timeout the bucket was constructed with.
PendingTimeout == 1

Keys == 1 .. NumKeys

NodeStatus == {"Connected", "Disconnected"}

Instants == 0 .. (MaxTime + PendingTimeout)

None == {}

Some(x) == {x}

is_some(o) == o # {}

unwrap(o) == CHOOSE x \in o : TRUE

VARIABLES
    nodes,                \* KBucket::nodes, a sequence of keys
    first_connected_pos,  \* KBucket::first_connected_pos, Option<usize>
    pending,              \* KBucket::pending, Option<PendingNode>
    now,                  \* the reading of Instant::now()
    result,               \* the last call made on the bucket and what it returned
    log,                  \* resident members, <<key, status given>>, oldest transition first
    parked,               \* of the last insert that returned Pending: the key it named,
                          \* and whether update was called on that key since
    aborted               \* a call has panicked

vars == <<nodes, first_connected_pos, pending, now, result, log, parked, aborted>>

\* The bucket as one value, and its parts.
Bucket(ns, fcp, pnd) == [nodes |-> ns, first_connected_pos |-> fcp, pending |-> pnd]

PendingNode(key, st, t) == [key |-> key, status |-> st, replace |-> t]

\* ArrayVec::len / is_full
is_full(ns) == Len(ns) = MAX_NODES_PER_BUCKET

\* ArrayVec::remove(index): the list without the element at 0-based index i.
vec_remove(ns, i) == SubSeq(ns, 1, i) \o SubSeq(ns, i + 2, Len(ns))

\* ArrayVec::insert(index, element), defined for index <= len.
vec_insert(ns, i, x) == SubSeq(ns, 1, i) \o <<x>> \o SubSeq(ns, i + 1, Len(ns))

\* ArrayVec::insert panics when index > len or the vector is full.
vec_insert_panics(ns, i) == i > Len(ns) \/ is_full(ns)

\* KBucket::status
status(fcp, pos) ==
    IF is_some(fcp) /\ pos >= unwrap(fcp) THEN "Connected" ELSE "Disconnected"

\* KBucket::position
position(ns, key) ==
    LET hits == {i \in 1 .. Len(ns) : ns[i] = key}
    IN  IF hits = {} THEN None
        ELSE Some((CHOOSE i \in hits : \A j \in hits : i <= j) - 1)

\* KBucket::num_entries
num_entries(ns) == Len(ns)

\* num_connected counting from the position after first_connected_pos.
num_connected_skips_first(ns, fcp) == IF is_some(fcp) THEN Len(ns) - unwrap(fcp) - 1 ELSE 0

\* KBucket::num_connected
num_connected(ns, fcp) == IF is_some(fcp) THEN Len(ns) - unwrap(fcp) ELSE 0

\* KBucket::num_disconnected
num_disconnected(ns, fcp) == Len(ns) - num_connected(ns, fcp)

\* KBucket::iter: the sequence of <<key, derived status>>.
iter(ns, fcp) == [i \in 1 .. Len(ns) |-> <<ns[i], status(fcp, i - 1)>>]

\* What a call hands back: the new bucket, the returned value, and whether it panicked.
Outcome(b, ret, disconnected, inserted, evicted, panic) ==
    [b |-> b, ret |-> ret, disconnected |-> disconnected,
     inserted |-> inserted, evicted |-> evicted, panic |-> panic]

\* insert's Connected arm naming the most recently connected node, not the
\* node at position 0, as the one to be replaced.
insert_connected_names_last(b, node, t) ==
    IF is_full(b.nodes)
    THEN IF b.first_connected_pos = Some(0) \/ is_some(b.pending)
         THEN Outcome(b, "Full", None, None, None, FALSE)
         ELSE Outcome(Bucket(b.nodes, b.first_connected_pos,
                             Some(PendingNode(node, "Connected", t + PendingTimeout))),
                      "Pending", Some(b.nodes[Len(b.nodes)]), None, None, FALSE)
    ELSE Outcome(Bucket(Append(b.nodes, node),
                        IF is_some(b.first_connected_pos)
                        THEN b.first_connected_pos ELSE Some(Len(b.nodes)),
                        b.pending),
                 "Inserted", None, None, None, FALSE)

\* insert's Connected arm without the test for an outstanding pending node.
insert_connected_overwrites_pending(b, node, t) ==
    IF is_full(b.nodes)
    THEN IF b.first_connected_pos = Some(0)
         THEN Outcome(b, "Full", None, None, None, FALSE)
         ELSE Outcome(Bucket(b.nodes, b.first_connected_pos,
                             Some(PendingNode(node, "Connected", t + PendingTimeout))),
                      "Pending", Some(b.nodes[1]), None, None, FALSE)
    ELSE Outcome(Bucket(Append(b.nodes, node),
                        IF is_some(b.first_connected_pos)
                        THEN b.first_connected_pos ELSE Some(Len(b.nodes)),
                        b.pending),
                 "Inserted", None, None, None, FALSE)

\* insert's Connected arm without the test for a Connected node at
\* position 0.
insert_connected_parks_on_connected(b, node, t) ==
    IF is_full(b.nodes)
    THEN IF is_some(b.pending)
         THEN Outcome(b, "Full", None, None, None, FALSE)
         ELSE Outcome(Bucket(b.nodes, b.first_connected_pos,
                             Some(PendingNode(node, "Connected", t + PendingTimeout))),
                      "Pending", Some(b.nodes[1]), None, None, FALSE)
    ELSE Outcome(Bucket(Append(b.nodes, node),
                        IF is_some(b.first_connected_pos)
                        THEN b.first_connected_pos ELSE Some(Len(b.nodes)),
                        b.pending),
                 "Inserted", None, None, None, FALSE)

\* KBucket::insert, the NodeStatus::Connected arm.
insert_connected(b, node, t) ==
    IF is_full(b.nodes)
    THEN IF b.first_connected_pos = Some(0) \/ is_some(b.pending)
         THEN Outcome(b, "Full", None, None, None, FALSE)
         ELSE Outcome(Bucket(b.nodes, b.first_connected_pos,
                             Some(PendingNode(node, "Connected", t + PendingTimeout))),
                      "Pending", Some(b.nodes[1]), None, None, FALSE)
    ELSE LET pos == Len(b.nodes)
         IN  Outcome(Bucket(Append(b.nodes, node),
                            IF is_some(b.first_connected_pos)
                            THEN b.first_connected_pos ELSE Some(pos),
                            b.pending),
                     "Inserted", None, None, None, FALSE)

\* insert's Disconnected arm without the increment of first_connected_pos.
insert_disconnected_keeps_split(b, node) ==
    IF is_full(b.nodes)
    THEN Outcome(b, "Full", None, None, None, FALSE)
    ELSE IF is_some(b.first_connected_pos)
         THEN LET p == unwrap(b.first_connected_pos)
              IN  IF vec_insert_panics(b.nodes, p)
                  THEN Outcome(b, "Panic", None, None, None, TRUE)
                  ELSE Outcome(Bucket(vec_insert(b.nodes, p, node), Some(p), b.pending),
                               "Inserted", None, None, None, FALSE)
         ELSE Outcome(Bucket(Append(b.nodes, node), b.first_connected_pos, b.pending),
                      "Inserted", None, None, None, FALSE)

\* insert's Disconnected arm without the test for a full bucket.
insert_disconnected_ignores_full(b, node) ==
    IF is_some(b.first_connected_pos)
    THEN LET p == unwrap(b.first_connected_pos)
         IN  IF p > Len(b.nodes)
             THEN Outcome(b, "Panic", None, None, None, TRUE)
             ELSE Outcome(Bucket(vec_insert(b.nodes, p, node), Some(p + 1), b.pending),
                          "Inserted", None, None, None, FALSE)
    ELSE Outcome(Bucket(Append(b.nodes, node), b.first_connected_pos, b.pending),
                 "Inserted", None, None, None, FALSE)

\* KBucket::insert, the NodeStatus::Disconnected arm.
insert_disconnected(b, node) ==
    IF is_full(b.nodes)
    THEN Outcome(b, "Full", None, None, None, FALSE)
    ELSE IF is_some(b.first_connected_pos)
         THEN LET p == unwrap(b.first_connected_pos)
              IN  IF vec_insert_panics(b.nodes, p)
                  THEN Outcome(b, "Panic", None, None, None, TRUE)
                  ELSE Outcome(Bucket(vec_insert(b.nodes, p, node), Some(p + 1), b.pending),
                               "Inserted", None, None, None, FALSE)
         ELSE Outcome(Bucket(Append(b.nodes, node), b.first_connected_pos, b.pending),
                      "Inserted", None, None, None, FALSE)

\* KBucket::insert
insert(b, node, st, t) ==
    IF st = "Connected" THEN insert_connected(b, node, t) ELSE insert_disconnected(b, node)

\* update_pending emptying the slot when the status given is Disconnected.
update_pending_drops_disconnected(b, st) ==
    IF is_some(b.pending)
    THEN Bucket(b.nodes, b.first_connected_pos,
                IF st = "Disconnected" THEN None
                ELSE Some([unwrap(b.pending) EXCEPT !.status = st]))
    ELSE b

\* KBucket::update_pending
update_pending(b, st) ==
    IF is_some(b.pending)
    THEN Bucket(b.nodes, b.first_connected_pos,
                Some([unwrap(b.pending) EXCEPT !.status = st]))
    ELSE b

\* update discarding the pending node before it looks the key up, so also
\* for a key that is not in the bucket.
update_discards_for_absent(b, key, st, t) ==
    LET pos == position(b.nodes, key)
    IN  IF is_some(pos)
        THEN LET removed == vec_remove(b.nodes, unwrap(pos))
                 pnd == IF pos = Some(0) /\ st = "Connected" THEN None ELSE b.pending
                 r == insert(Bucket(removed, b.first_connected_pos, pnd), key, st, t)
             IN  IF r.ret = "Inserted"
                 THEN Outcome(r.b, "Unit", None, None, None, FALSE)
                 ELSE Outcome(r.b, "Panic", None, None, None, TRUE)
        ELSE Outcome(Bucket(b.nodes, b.first_connected_pos,
                            IF st = "Connected" THEN None ELSE b.pending),
                     "Unit", None, None, None, FALSE)

\* update discarding the pending node on every update to Connected, not
\* only on that of the node at position 0.
update_discards_on_any_connect(b, key, st, t) ==
    LET pos == position(b.nodes, key)
    IN  IF is_some(pos)
        THEN LET removed == vec_remove(b.nodes, unwrap(pos))
                 pnd == IF st = "Connected" THEN None ELSE b.pending
                 r == insert(Bucket(removed, b.first_connected_pos, pnd), key, st, t)
             IN  IF r.ret = "Inserted"
                 THEN Outcome(r.b, "Unit", None, None, None, FALSE)
                 ELSE Outcome(r.b, "Panic", None, None, None, TRUE)
        ELSE Outcome(b, "Unit", None, None, None, FALSE)

\* KBucket::update
update(b, key, st, t) ==
    LET pos == position(b.nodes, key)
    IN  IF is_some(pos)
        THEN LET removed == vec_remove(b.nodes, unwrap(pos))
                 pnd == IF pos = Some(0) /\ st = "Connected" THEN None ELSE b.pending
                 r == insert(Bucket(removed, b.first_connected_pos, pnd), key, st, t)
             IN  IF r.ret = "Inserted"
                 THEN Outcome(r.b, "Unit", None, None, None, FALSE)
                 ELSE Outcome(r.b, "Panic", None, None, None, TRUE)
        ELSE Outcome(b, "Unit", None, None, None, FALSE)

\* Admission of a Connected pending node that leaves a set
\* first_connected_pos where it was.
admit_connected_keeps_split(b, pnd) ==
    LET rest == vec_remove(b.nodes, 0)
    IN  Outcome(Bucket(Append(rest, pnd.key),
                       IF is_some(b.first_connected_pos)
                       THEN b.first_connected_pos
                       ELSE Some(Len(rest)),
                       None),
                "Some", None, Some(pnd.key), Some(b.nodes[1]), FALSE)

\* Admission of a Connected pending node that removes the last node of the
\* list instead of the node at position 0.
admit_connected_evicts_newest(b, pnd) ==
    LET rest == vec_remove(b.nodes, Len(b.nodes) - 1)
    IN  Outcome(Bucket(Append(rest, pnd.key),
                       IF is_some(b.first_connected_pos)
                       THEN Some(unwrap(b.first_connected_pos) - 1)
                       ELSE Some(Len(rest)),
                       None),
                "Some", None, Some(pnd.key), Some(b.nodes[Len(b.nodes)]), FALSE)

\* KBucket::apply_pending, full bucket, the pending node is Connected:
\* it goes at the end of the list, removing the node at position 0.
admit_connected(b, pnd) ==
    LET rest == vec_remove(b.nodes, 0)
    IN  Outcome(Bucket(Append(rest, pnd.key),
                       IF is_some(b.first_connected_pos)
                       THEN Some(unwrap(b.first_connected_pos) - 1)
                       ELSE Some(Len(rest)),
                       None),
                "Some", None, Some(pnd.key), Some(b.nodes[1]), FALSE)

\* Admission of a Disconnected pending node that moves first_connected_pos
\* down by one as the admission of a Connected node does.
admit_disconnected_moves_split(b, pnd) ==
    IF is_some(b.first_connected_pos)
    THEN LET p == unwrap(b.first_connected_pos)
         IN  IF p >= 1
             THEN Outcome(Bucket(vec_insert(vec_remove(b.nodes, 0), p - 1, pnd.key),
                                 Some(p - 1), None),
                          "Some", None, Some(pnd.key), Some(b.nodes[1]), FALSE)
             ELSE Outcome(Bucket(b.nodes, b.first_connected_pos, None),
                          "None", None, None, None, FALSE)
    ELSE Outcome(Bucket(Append(vec_remove(b.nodes, 0), pnd.key),
                        b.first_connected_pos, None),
                 "Some", None, Some(pnd.key), Some(b.nodes[1]), FALSE)

\* Admission of a Disconnected pending node that wants two positions, not
\* one, before first_connected_pos and otherwise drops the node.
admit_disconnected_needs_two(b, pnd) ==
    IF is_some(b.first_connected_pos)
    THEN LET p == unwrap(b.first_connected_pos)
         IN  IF p >= 2
             THEN Outcome(Bucket(vec_insert(vec_remove(b.nodes, 0), p - 1, pnd.key),
                                 b.first_connected_pos, None),
                          "Some", None, Some(pnd.key), Some(b.nodes[1]), FALSE)
             ELSE Outcome(Bucket(b.nodes, b.first_connected_pos, None),
                          "None", None, None, None, FALSE)
    ELSE Outcome(Bucket(Append(vec_remove(b.nodes, 0), pnd.key),
                        b.first_connected_pos, None),
                 "Some", None, Some(pnd.key), Some(b.nodes[1]), FALSE)

\* Admission of a Disconnected pending node that is put off: the node stays
\* in the pending slot and the list is left as it was.
admit_disconnected_stays_parked(b, pnd) ==
    Outcome(b, "None", None, None, None, FALSE)

\* KBucket::apply_pending, full bucket, the pending node is Disconnected:
\* it goes at the end of the list of the disconnected nodes.
admit_disconnected(b, pnd) ==
    IF is_some(b.first_connected_pos)
    THEN LET p == unwrap(b.first_connected_pos)
         IN  IF p >= 1
             THEN Outcome(Bucket(vec_insert(vec_remove(b.nodes, 0), p - 1, pnd.key),
                                 b.first_connected_pos, None),
                          "Some", None, Some(pnd.key), Some(b.nodes[1]), FALSE)
             ELSE Outcome(Bucket(b.nodes, b.first_connected_pos, None),
                          "None", None, None, None, FALSE)
    ELSE Outcome(Bucket(Append(vec_remove(b.nodes, 0), pnd.key),
                        b.first_connected_pos, None),
                 "Some", None, Some(pnd.key), Some(b.nodes[1]), FALSE)

\* apply_pending without the comparison of the ready time with the clock.
apply_pending_ignores_clock(b, t) ==
    IF is_some(b.pending)
    THEN LET pnd == unwrap(b.pending)
             taken == Bucket(b.nodes, b.first_connected_pos, None)
         IN  IF is_full(b.nodes)
             THEN IF status(b.first_connected_pos, 0) = "Connected"
                  THEN Outcome(taken, "None", None, None, None, FALSE)
                  ELSE IF pnd.status = "Connected"
                       THEN admit_connected(b, pnd)
                       ELSE admit_disconnected(b, pnd)
             ELSE LET r == insert(taken, pnd.key, pnd.status, t)
                  IN  IF r.ret = "Inserted"
                      THEN Outcome(r.b, "Some", None, Some(pnd.key), None, FALSE)
                      ELSE Outcome(r.b, "Panic", None, None, None, TRUE)
    ELSE Outcome(b, "None", None, None, None, FALSE)

\* KBucket::apply_pending
apply_pending(b, t) ==
    IF is_some(b.pending)
    THEN LET pnd == unwrap(b.pending)
             taken == Bucket(b.nodes, b.first_connected_pos, None)
         IN  IF pnd.replace <= t
             THEN IF is_full(b.nodes)
                  THEN IF status(b.first_connected_pos, 0) = "Connected"
                       THEN Outcome(taken, "None", None, None, None, FALSE)
                       ELSE IF pnd.status = "Connected"
                            THEN admit_connected(b, pnd)
                            ELSE admit_disconnected(b, pnd)
                  ELSE LET r == insert(taken, pnd.key, pnd.status, t)
                       IN  IF r.ret = "Inserted"
                           THEN Outcome(r.b, "Some", None, Some(pnd.key), None, FALSE)
                           ELSE Outcome(r.b, "Panic", None, None, None, TRUE)
             ELSE Outcome(b, "None", None, None, None, FALSE)
    ELSE Outcome(b, "None", None, None, None, FALSE)

\* PendingNode::set_ready_at, reached through KBucket::pending_mut
set_ready_at(b, t) ==
    Bucket(b.nodes, b.first_connected_pos, Some([unwrap(b.pending) EXCEPT !.replace = t]))

----------------------------------------------------------------------------
\* The record of a call.
Call(op, key, st, r) ==
    [op |-> op, key |-> key, status |-> st, ret |-> r.ret,
     disconnected |-> r.disconnected, inserted |-> r.inserted, evicted |-> r.evicted]

NoReturn == [ret |-> "Unit", disconnected |-> None, inserted |-> None, evicted |-> None]

\* The log without the entries of key k.
log_without(lg, k) == SelectSeq(lg, LAMBDA e : e[1] # k)

self == Bucket(nodes, first_connected_pos, pending)

Store(b) ==
    /\ nodes' = b.nodes
    /\ first_connected_pos' = b.first_connected_pos
    /\ pending' = b.pending

\* KBucket::new
Init ==
    /\ nodes = <<>>
    /\ first_connected_pos = None
    /\ pending = None
    /\ now = 0
    /\ result = Call("new", None, None, NoReturn)
    /\ log = <<>>
    /\ parked = None
    /\ aborted = FALSE

\* The keys the owning table may insert: neither resident nor pending.
Fresh == {k \in Keys : position(nodes, k) = None /\ \A p \in pending : p.key # k}

Insert(k, st) ==
    /\ ~aborted
    /\ k \in Fresh
    /\ LET r == insert(self, k, st, now)
       IN  /\ Store(r.b)
           /\ result' = Call("insert", Some(k), Some(st), r)
           /\ log' = IF r.ret = "Inserted" THEN Append(log, <<k, st>>) ELSE log
           /\ parked' = IF r.ret = "Pending"
                        THEN Some([disconnected |-> unwrap(r.disconnected),
                                   updated |-> FALSE])
                        ELSE parked
           /\ aborted' = r.panic
    /\ UNCHANGED now

Update(k, st) ==
    /\ ~aborted
    /\ LET r == update(self, k, st, now)
       IN  /\ Store(r.b)
           /\ result' = Call("update", Some(k), Some(st), r)
           /\ log' = IF is_some(position(nodes, k)) /\ ~r.panic
                     THEN Append(log_without(log, k), <<k, st>>) ELSE log
           /\ parked' = IF is_some(position(nodes, k))
                        THEN {[p EXCEPT !.updated = (p.updated \/ p.disconnected = k)] :
                                  p \in parked}
                        ELSE parked
           /\ aborted' = r.panic
    /\ UNCHANGED now

UpdatePending(st) ==
    /\ ~aborted
    /\ Store(update_pending(self, st))
    /\ result' = Call("update_pending", None, Some(st), NoReturn)
    /\ UNCHANGED <<now, log, parked, aborted>>

ApplyPending ==
    /\ ~aborted
    /\ LET r == apply_pending(self, now)
       IN  /\ Store(r.b)
           /\ result' = Call("apply_pending", None, None, r)
           /\ log' = IF r.ret = "Some"
                     THEN Append(IF is_some(r.evicted)
                                 THEN log_without(log, unwrap(r.evicted)) ELSE log,
                                 <<unwrap(r.inserted), unwrap(pending).status>>)
                     ELSE log
           /\ aborted' = r.panic
    /\ UNCHANGED <<now, parked>>

SetReadyAt(t) ==
    /\ ~aborted
    /\ is_some(pending)
    /\ Store(set_ready_at(self, t))
    /\ result' = Call("set_ready_at", None, None, NoReturn)
    /\ UNCHANGED <<now, log, parked, aborted>>

Tick ==
    /\ ~aborted
    /\ now < MaxTime
    /\ now' = now + 1
    /\ result' = Call("tick", None, None, NoReturn)
    /\ UNCHANGED <<nodes, first_connected_pos, pending, log, parked, aborted>>

Next ==
    \/ \E k \in Keys, st \in NodeStatus : Insert(k, st)
    \/ \E k \in Keys, st \in NodeStatus : Update(k, st)
    \/ \E st \in NodeStatus : UpdatePending(st)
    \/ ApplyPending
    \/ \E t \in Instants : SetReadyAt(t)
    \/ Tick

Spec == Init /\ [][Next]_vars

\* Only insert is called (tests::ordering).
NextInsert == \E k \in Keys, st \in NodeStatus : Insert(k, st)

SpecInsert == Init /\ [][NextInsert]_vars

\* PendingNode::set_ready_at with an instant no later than the ready time the
\* pending node has: the ready time is never pushed back.
SetReadyAtNoLater(t) ==
    /\ \A p \in pending : t <= p.replace
    /\ SetReadyAt(t)

NextLive ==
    \/ \E k \in Keys, st \in NodeStatus : Insert(k, st)
    \/ \E k \in Keys, st \in NodeStatus : Update(k, st)
    \/ \E st \in NodeStatus : UpdatePending(st)
    \/ ApplyPending
    \/ \E t \in Instants : SetReadyAtNoLater(t)
    \/ Tick

\* The calls of the owning table with a clock that keeps advancing up to
\* MaxTime and a ready time that is never pushed back.
SpecLive == Init /\ [][NextLive]_vars /\ WF_vars(Tick)

TypeOK ==
    /\ Len(nodes) <= MAX_NODES_PER_BUCKET
    /\ \A i \in 1 .. Len(nodes) : nodes[i] \in Keys
    /\ first_connected_pos \subseteq 0 .. MAX_NODES_PER_BUCKET
    /\ Cardinality(pending) <= 1
    /\ now \in 0 .. MaxTime
    /\ aborted \in BOOLEAN
----------------------------------------------------------------------------
\* Vocabulary of the properties.

\* The derived status of the resident key k in the bucket (ns, fcp).
derived(ns, fcp, k) == status(fcp, unwrap(position(ns, k)))

\* The status key k was last given, according to the log lg.
given(lg, k) == (CHOOSE e \in {lg[i] : i \in 1 .. Len(lg)} : e[1] = k)[2]

resident(ns) == {ns[i] : i \in 1 .. Len(ns)}

\* The keys of the log entries with status st, oldest first.
keys_of(lg, st) ==
    LET sel == SelectSeq(lg, LAMBDA e : e[2] = st)
    IN  [i \in 1 .. Len(sel) |-> sel[i][1]]

\* Position of the first member iter() reports Connected, as an Option.
first_reported_connected(ns, fcp) ==
    LET hits == {i \in 1 .. Len(ns) : iter(ns, fcp)[i][2] = "Connected"}
    IN  IF hits = {} THEN None
        ELSE Some((CHOOSE i \in hits : \A j \in hits : i <= j) - 1)

----------------------------------------------------------------------------
\* C1: in every state reached by completed calls, first_connected_pos is
\* None or a valid index below count(), it is the index of the first member
\* iter() reports Connected, and it is None exactly when none is Connected.
C1_SplitIndexValid ==
    ~aborted =>
        /\ \A p \in first_connected_pos : 0 <= p /\ p < num_entries(nodes)
        /\ first_connected_pos = first_reported_connected(nodes, first_connected_pos)
        /\ (first_connected_pos = None
              <=> \A i \in 1 .. Len(nodes) :
                      iter(nodes, first_connected_pos)[i][2] # "Connected")

\* C2: after update(id, s) of a resident id the derived status of id is s,
\* the derived status of every other resident member is what it was, and
\* every member's derived status is the status it was last given.
C2_UpdateSetsStatus ==
    [][(/\ result'.op = "update"
        /\ ~aborted'
        /\ is_some(position(nodes, unwrap(result'.key))))
       => LET k == unwrap(result'.key)
              st == unwrap(result'.status)
          IN  /\ derived(nodes', first_connected_pos', k) = st
              /\ \A j \in resident(nodes) \ {k} :
                    derived(nodes', first_connected_pos', j)
                        = derived(nodes, first_connected_pos, j)
              /\ \A i \in 1 .. Len(log') :
                    derived(nodes', first_connected_pos', log'[i][1]) = log'[i][2]
      ]_vars

\* C3: after inserts alone, iter() yields the members inserted as
\* Disconnected in insertion order, then the members inserted as Connected
\* in insertion order, and first_connected_pos is the index of the first
\* Connected member, or None when there is none.
C3_InsertOrdering ==
    /\ iter(nodes, first_connected_pos)
          = SelectSeq(log, LAMBDA e : e[2] = "Disconnected")
              \o SelectSeq(log, LAMBDA e : e[2] = "Connected")
    /\ first_connected_pos
          = IF keys_of(log, "Connected") = <<>> THEN None
            ELSE Some(Len(keys_of(log, "Disconnected")))

\* A Disconnected member was inserted after a Connected one.
C3_Witness ==
    /\ result.op = "insert"
    /\ result.ret = "Inserted"
    /\ \E i, j \in 1 .. Len(log) :
          i < j /\ log[i][2] = "Connected" /\ log[j][2] = "Disconnected"

\* Members last given the same status are stored oldest transition first,
\* and those given Disconnected precede those given Connected.
OrderedByGiven ==
    \A i, j \in 1 .. Len(log) :
        /\ (i < j /\ log[i][2] = log[j][2])
              => unwrap(position(nodes, log[i][1])) < unwrap(position(nodes, log[j][1]))
        /\ (log[i][2] = "Disconnected" /\ log[j][2] = "Connected")
              => unwrap(position(nodes, log[i][1])) < unwrap(position(nodes, log[j][1]))

\* C4: in every state reached by completed calls, the members of each
\* status class are stored from least to most recently transitioned and the
\* Disconnected members precede the Connected ones, the status of a member
\* being the one it was last given.
C4_RecencyOrder ==
    ~aborted => OrderedByGiven

\* C5: a member evicted by apply_pending was last given Disconnected and
\* was the least recently updated of the members given Disconnected.
C5_EvictsStalestDisconnected ==
    [][(result'.op = "apply_pending" /\ is_some(result'.evicted))
       => LET e == unwrap(result'.evicted)
          IN  /\ given(log, e) = "Disconnected"
              /\ keys_of(log, "Disconnected")[1] = e
      ]_vars

\* C6: insert(member, Connected) on a full bucket with a Disconnected
\* member at position 0 and no pending node returns Pending naming the key
\* at position 0, parks the member as pending with status Connected and
\* ready time now + pending_timeout, and leaves nodes and
\* first_connected_pos as they were.
C6_InsertParks ==
    [][(/\ result'.op = "insert"
        /\ result'.status = Some("Connected")
        /\ is_full(nodes)
        /\ status(first_connected_pos, 0) = "Disconnected"
        /\ pending = None)
       => /\ result'.ret = "Pending"
          /\ result'.disconnected = Some(nodes[1])
          /\ pending' = Some(PendingNode(unwrap(result'.key), "Connected",
                                         now + PendingTimeout))
          /\ nodes' = nodes
          /\ first_connected_pos' = first_connected_pos
          /\ ~aborted'
      ]_vars

\* An insert has parked a node in a bucket that holds a Connected member.
C6_Witness ==
    /\ result.op = "insert"
    /\ result.ret = "Pending"
    /\ is_some(pending)
    /\ is_some(first_connected_pos)
    /\ result.disconnected # Some(nodes[Len(nodes)])

\* C7: apply_pending on a full bucket whose position 0 is Disconnected, with
\* a Connected pending node whose ready time has elapsed, removes the member
\* at position 0, appends the pending node as the last member with derived
\* status Connected, clears the pending slot, keeps count() at K, sets
\* first_connected_pos to K-1 if it was unset and otherwise decreases it by
\* one, and returns the key of the pending node with the removed member.
C7_ApplyAdmitsConnected ==
    [][(/\ result'.op = "apply_pending"
        /\ is_full(nodes)
        /\ is_some(pending)
        /\ unwrap(pending).status = "Connected"
        /\ unwrap(pending).replace <= now
        /\ status(first_connected_pos, 0) = "Disconnected")
       => /\ nodes' = Append(Tail(nodes), unwrap(pending).key)
          /\ iter(nodes', first_connected_pos')[Len(nodes')]
                = <<unwrap(pending).key, "Connected">>
          /\ pending' = None
          /\ num_entries(nodes') = MAX_NODES_PER_BUCKET
          /\ first_connected_pos'
                = IF first_connected_pos = None
                  THEN Some(MAX_NODES_PER_BUCKET - 1)
                  ELSE Some(unwrap(first_connected_pos) - 1)
          /\ result'.ret = "Some"
          /\ result'.inserted = Some(unwrap(pending).key)
          /\ result'.evicted = Some(nodes[1])
          /\ ~aborted'
      ]_vars

\* apply_pending has admitted a Connected node into a bucket that already
\* held a Connected member.
C7_Witness ==
    /\ result.op = "apply_pending"
    /\ result.ret = "Some"
    /\ is_some(result.evicted)
    /\ is_full(nodes)
    /\ given(log, unwrap(result.inserted)) = "Connected"
    /\ num_connected(nodes, first_connected_pos) >= 2

\* C8: with a pending node outstanding, update(id, Connected) of the member
\* at position 0 discards the pending node, which is not made a member, and
\* leaves the promoted member last with derived status Connected; an
\* apply_pending that finds no pending node returns None and changes nothing.
C8_PromotionDiscardsPending ==
    [][/\ (/\ result'.op = "update"
           /\ result'.status = Some("Connected")
           /\ is_some(pending)
           /\ position(nodes, unwrap(result'.key)) = Some(0))
          => /\ ~aborted'
             /\ pending' = None
             /\ unwrap(pending).key \notin resident(nodes')
             /\ iter(nodes', first_connected_pos')[Len(nodes')]
                   = <<unwrap(result'.key), "Connected">>
       /\ (result'.op = "apply_pending" /\ pending = None)
          => /\ result'.ret = "None"
             /\ UNCHANGED <<nodes, first_connected_pos, pending>>
      ]_vars

\* C9: insert returns Full exactly when the bucket is full and the status is
\* Disconnected, or the status is Connected and position 0 is Connected or
\* a pending node exists; a Full result changes neither nodes,
\* first_connected_pos nor the pending node, and no insert replaces an
\* outstanding pending node.
C9_FullExactly ==
    [][result'.op = "insert"
       => /\ (result'.ret = "Full")
                <=> \/ result'.status = Some("Disconnected") /\ is_full(nodes)
                    \/ /\ result'.status = Some("Connected")
                       /\ is_full(nodes)
                       /\ \/ status(first_connected_pos, 0) = "Connected"
                          \/ is_some(pending)
          /\ result'.ret = "Full"
                => UNCHANGED <<nodes, first_connected_pos, pending>>
          /\ is_some(pending) => pending' = pending
          /\ Cardinality(pending') <= 1
      ]_vars

\* A Connected insert was refused because a pending node is outstanding.
C9_Witness ==
    /\ result.op = "insert"
    /\ result.ret = "Full"
    /\ result.status = Some("Connected")
    /\ is_some(pending)
    /\ status(first_connected_pos, 0) = "Disconnected"

\* C10: update of a resident key always completes: the re-insertion returns
\* Inserted and no list insertion beyond the length of the list is attempted.
C10_UpdateNeverAborts ==
    result.op = "update" => (result.ret = "Unit" /\ ~aborted)
\* C11 as stated: a member evicted by apply_pending is the one named by the
\* insert that parked the admitted node, whatever update and update_pending
\* calls came in between.
C11_EvictsNamed ==
    [][(/\ result'.op = "apply_pending"
        /\ is_some(result'.evicted)
        /\ is_some(parked))
       => result'.evicted = Some(unwrap(parked).disconnected)
      ]_vars

\* C11: a member evicted by apply_pending is the one named by the insert
\* that parked the admitted node, provided update was not called on the
\* named member in between.
C11_EvictsNamedUnlessUpdated ==
    [][(/\ result'.op = "apply_pending"
        /\ is_some(result'.evicted)
        /\ is_some(parked)
        /\ ~unwrap(parked).updated)
       => result'.evicted = Some(unwrap(parked).disconnected)
      ]_vars

\* apply_pending has evicted the member the parking insert named, after an
\* update of another member moved that one behind the admitted node's place.
C11_Witness ==
    /\ result.op = "apply_pending"
    /\ is_some(result.evicted)
    /\ is_some(parked)
    /\ ~unwrap(parked).updated
    /\ result.evicted = Some(unwrap(parked).disconnected)
    /\ Len(log) >= 2
    /\ log[Len(log)][1] = unwrap(result.inserted)
\* The step is an apply_pending that admits the pending node after its
\* ready time.
LeavesByAdmission ==
    /\ result'.op = "apply_pending"
    /\ unwrap(pending).replace <= now
    /\ result'.ret = "Some"
    /\ result'.inserted = Some(unwrap(pending).key)

\* The step is an apply_pending after the ready time that finds the bucket
\* full with a Connected member at position 0.
LeavesByDrop ==
    /\ result'.op = "apply_pending"
    /\ unwrap(pending).replace <= now
    /\ is_full(nodes)
    /\ status(first_connected_pos, 0) = "Connected"
    /\ result'.ret = "None"

\* The step is an update that gives Connected to the member at position 0.
LeavesByPromotion ==
    /\ result'.op = "update"
    /\ result'.status = Some("Connected")
    /\ position(nodes, unwrap(result'.key)) = Some(0)

\* The same key is pending before and after the step.
SameNodePending ==
    /\ is_some(pending')
    /\ unwrap(pending').key = unwrap(pending).key

\* C12: a pending node leaves the slot only by admission after its ready
\* time, by the drop after its ready time from a full bucket with position 0
\* Connected, or by the promotion of the member at position 0; insert,
\* update_pending, any other update and apply_pending before the ready time
\* leave the same key pending.
C12_PendingLeavesOnlyBy ==
    [][is_some(pending)
       => /\ ~SameNodePending
                => (LeavesByAdmission \/ LeavesByDrop \/ LeavesByPromotion)
          /\ (\/ result'.op \in {"insert", "update_pending"}
              \/ result'.op = "update" /\ ~LeavesByPromotion
              \/ result'.op = "apply_pending" /\ unwrap(pending).replace > now)
                => SameNodePending
      ]_vars

\* A member that was not at position 0 was given Connected while a node
\* was pending, and the node is still pending.
C12_Witness ==
    /\ result.op = "update"
    /\ result.status = Some("Connected")
    /\ is_some(pending)
    /\ result.key \subseteq resident(nodes)
    /\ ~aborted
\* C13: the bucket never holds more than K members.
C13_Capacity ==
    num_entries(nodes) <= MAX_NODES_PER_BUCKET

\* A Disconnected insert was refused by a full bucket.
C13_Witness ==
    /\ result.op = "insert"
    /\ result.status = Some("Disconnected")
    /\ result.ret = "Full"
    /\ num_entries(nodes) = MAX_NODES_PER_BUCKET

\* C14: apply_pending before the ready time of the pending node returns
\* None and changes neither the pending node, nodes nor
\* first_connected_pos; whenever apply_pending admits a node, its ready
\* time has elapsed.
C14_NotReadyIsNoOp ==
    [][result'.op = "apply_pending"
       => /\ (is_some(pending) /\ unwrap(pending).replace > now)
                => /\ result'.ret = "None"
                   /\ UNCHANGED <<nodes, first_connected_pos, pending>>
          /\ result'.ret = "Some" => unwrap(pending).replace <= now
      ]_vars

\* apply_pending was called before the ready time of the pending node.
C14_Witness ==
    /\ result.op = "apply_pending"
    /\ result.ret = "None"
    /\ is_some(pending)
    /\ unwrap(pending).replace > now
\* C15: when the member named by the parking insert has not been updated
\* since, an apply_pending at or after the ready time of the pending node
\* admits the node as a member and evicts the named member, whatever
\* inserts, updates of other members and update_pending calls came between.
C15_ReadyAdmitsAndEvictsNamed ==
    [][(/\ result'.op = "apply_pending"
        /\ is_some(pending)
        /\ unwrap(pending).replace <= now
        /\ is_some(parked)
        /\ ~unwrap(parked).updated)
       => /\ result'.ret = "Some"
          /\ result'.inserted = Some(unwrap(pending).key)
          /\ result'.evicted = Some(unwrap(parked).disconnected)
          /\ unwrap(pending).key \in resident(nodes')
          /\ unwrap(parked).disconnected \notin resident(nodes')
          /\ pending' = None
      ]_vars

\* A node whose status update_pending had set to Disconnected was admitted
\* and the member named at its parking, never updated since, was evicted.
C15_Witness ==
    /\ result.op = "apply_pending"
    /\ result.ret = "Some"
    /\ is_some(parked)
    /\ ~unwrap(parked).updated
    /\ result.evicted = Some(unwrap(parked).disconnected)
    /\ given(log, unwrap(result.inserted)) = "Disconnected"
    /\ is_some(first_connected_pos)

C17_ApplyAdmitsDisconnected ==
    [][(/\ result'.op = "apply_pending"
        /\ is_some(pending)
        /\ unwrap(pending).status = "Disconnected"
        /\ unwrap(pending).replace <= now
        /\ is_full(nodes)
        /\ status(first_connected_pos, 0) = "Disconnected")
       => LET cand == unwrap(pending).key
              d == num_disconnected(nodes, first_connected_pos)
          IN  /\ result'.ret = "Some"
              /\ result'.inserted = Some(cand)
              /\ result'.evicted = Some(nodes[1])
              /\ nodes' = SubSeq(nodes, 2, d) \o <<cand>>
                              \o SubSeq(nodes, d + 1, Len(nodes))
              /\ iter(nodes', first_connected_pos')[d] = <<cand, "Disconnected">>
              /\ first_reported_connected(nodes', first_connected_pos')
                    = IF d = Len(nodes) THEN None ELSE Some(d)
              /\ \A j \in resident(nodes) \ {nodes[1]} :
                    derived(nodes', first_connected_pos', j)
                        = derived(nodes, first_connected_pos, j)
              /\ pending' = None
      ]_vars

\* A node admitted as Disconnected stands right before the first Connected
\* member.
C17_Witness ==
    /\ result.op = "apply_pending"
    /\ result.ret = "Some"
    /\ is_some(result.evicted)
    /\ num_connected(nodes, first_connected_pos) >= 1
    /\ num_disconnected(nodes, first_connected_pos) >= 1
    /\ nodes[num_disconnected(nodes, first_connected_pos)] = unwrap(result.inserted)
    /\ given(log, unwrap(result.inserted)) = "Disconnected"

\* C18: update_pending(status) changes the status of the pending node and
\* nothing else; with no pending node it changes nothing.
C18_UpdatePendingFrame ==
    [][result'.op = "update_pending"
       => /\ nodes' = nodes
          /\ first_connected_pos' = first_connected_pos
          /\ pending' = {[key |-> p.key, status |-> unwrap(result'.status),
                           replace |-> p.replace] : p \in pending}
          /\ ~aborted'
      ]_vars

\* update_pending has set the status of the pending node to Disconnected.
C18_Witness ==
    /\ result.op = "update_pending"
    /\ result.status = Some("Disconnected")
    /\ is_some(pending)
    /\ unwrap(pending).status = "Disconnected"

\* C19: update of a key that is not a member, the key of the pending node
\* included, changes neither nodes, first_connected_pos nor the pending
\* node.
C19_UpdateAbsentIsNoOp ==
    [][(result'.op = "update" /\ position(nodes, unwrap(result'.key)) = None)
       => /\ UNCHANGED <<nodes, first_connected_pos, pending>>
          /\ result'.ret = "Unit"
          /\ ~aborted'
      ]_vars

\* update was called with Connected on the key of the pending node.
C19_Witness ==
    /\ result.op = "update"
    /\ result.status = Some("Connected")
    /\ is_some(pending)
    /\ result.key = Some(unwrap(pending).key)

MembersDistinct(ns, pnd) ==
    /\ Cardinality(resident(ns)) = Len(ns)
    /\ \A p \in pnd : p.key \notin resident(ns)

\* C21: with insert called only for keys that are neither resident nor
\* pending, a call changes the set of resident keys only if it is an insert
\* that returns Inserted, which adds exactly the inserted key, or an
\* apply_pending that admits the pending node, which adds the pending key
\* and removes the evicted key if there is one; update leaves the set and
\* the length of the list as they were; after every call the resident keys
\* are pairwise distinct, the pending key is not resident and the list is
\* no shorter than before.
C21_MembershipFrame ==
    [][   /\ (result'.op = "insert" /\ result'.ret = "Inserted")
                => /\ unwrap(result'.key) \notin resident(nodes)
                   /\ resident(nodes') = resident(nodes) \cup result'.key
          /\ (result'.op = "apply_pending" /\ result'.ret = "Some")
                => /\ result'.inserted = {p.key : p \in pending}
                   /\ result'.evicted \subseteq resident(nodes)
                   /\ resident(nodes') =
                          (resident(nodes) \ result'.evicted) \cup result'.inserted
          /\ ( /\ ~(result'.op = "insert" /\ result'.ret = "Inserted")
               /\ ~(result'.op = "apply_pending" /\ result'.ret = "Some") )
                => resident(nodes') = resident(nodes)
          /\ result'.op = "update" => Len(nodes') = Len(nodes)
          /\ MembersDistinct(nodes', pending')
          /\ Len(nodes') >= Len(nodes)
      ]_vars

\* A pending node whose ready time the clock of the model can reach.
Parked == \E p \in pending : p.replace <= MaxTime

\* The pending slot is free again after a node was parked, in a full list
\* whose position 0 is reported Disconnected.
SlotFreeAgain ==
    /\ ~aborted
    /\ pending = None
    /\ is_some(parked)
    /\ is_full(nodes)
    /\ status(first_connected_pos, 0) = "Disconnected"

\* C22: when the clock keeps advancing, the ready time is never pushed back
\* and apply_pending is called again and again, a parked pending node
\* eventually leaves the pending slot (admitted or discarded); and whenever
\* the slot is free again in a full list whose position 0 is reported
\* Disconnected, insert of a new Connected node returns Pending.
C22_PendingResolved ==
    /\ ([]<>(result.op = "apply_pending")) => (Parked ~> (pending = None))
    /\ [](SlotFreeAgain =>
             \A k \in Fresh : insert(self, k, "Connected", now).ret = "Pending")

\* A ready pending node was admitted by apply_pending; the slot is free, the
\* list is full with position 0 reported Disconnected, and there is a key
\* the owning table may insert.
C22_Witness ==
    /\ SlotFreeAgain
    /\ result.op = "apply_pending"
    /\ result.ret = "Some"
    /\ Fresh # {}
====
